---- MODULE Spec2Model ----
(***************************************************************************)
(* garage-door: a multi-tenant mock OpenID Connect provider.               *)
(*                                                                         *)
(* The model covers the issuer registry built by Server::add_issuer, the   *)
(* route table installed by Server::run, the per-issuer handlers of        *)
(* endpoints/issuer.rs (discovery, index, auth_get, keys, userinfo_get,    *)
(* token), the per-issuer write lock taken by auth_get and token, and the  *)
(* id-token amendment of a token response.                                 *)
(*                                                                         *)
(* The specifications share the variables:                                 *)
(*   SpecBuild  the builder: a sequence of add_issuer calls;               *)
(*   SpecAmend  amend_id_token applied to arbitrary token responses;       *)
(*   SpecUrl    issuer_url applied to any connection and issuer name;      *)
(*   Spec       the running server: auth and token requests handled        *)
(*              concurrently by the worker tasks of the HTTP server;       *)
(*   SpecFair   Spec under fair scheduling of the tasks and of the lock;   *)
(*   SpecRead   Spec with key export requests among the concurrent ones;   *)
(*   SpecHttp   the running server answering requests for every route one  *)
(*              after the other, with the answers recorded.                *)
(***************************************************************************)
EXTENDS Integers, Sequences, FiniteSets, TLC

\* ------------------------------------------------------------------------
\* Bounds of the model
\* ------------------------------------------------------------------------

\* requests in flight at the same time (worker tasks)
NumReqs == 2
\* authorization codes that may be outstanding in one issuer's authorizer
MaxCodes == 1
\* tokens one issuer mints before further requests are only rejected ones
MaxTokens == 1
\* add_issuer calls made on one Server builder
MaxAdds == 4

Reqs == 1 .. NumReqs

\* issuer names that requests and the builder use; Registered are the ones
\* the running server was built with
Names == {"alpha", "beta", "gamma"}
Registered == {"alpha", "beta"}
Keys == {"k1", "k2"}

NoReq == 0

\* ------------------------------------------------------------------------
\* Results (Rust's Result<T, E>)
\* ------------------------------------------------------------------------

Ok(v) == [ok |-> TRUE, val |-> v]
Err(e) == [ok |-> FALSE, err |-> e]

\* ------------------------------------------------------------------------
\* Server builder: the issuer registry
\* ------------------------------------------------------------------------

\* an Issuer as handed to add_issuer: its name and its key material
Issuer(n, k) == [name |-> n, key |-> k]
IssuerInputs == {Issuer(n, k) : n \in Names, k \in Keys}

\* Server::new: no issuers
NewIssuers == [n \in {} |-> Issuer("alpha", "k1")]

\* mutant of add_issuer: HashMap::insert instead of the entry API, so that a
\* duplicate replaces the issuer registered first
add_issuer_replacing(map, issuer) ==
    [map |-> [n \in (DOMAIN map) \cup {issuer.name} |->
                 IF n = issuer.name THEN issuer ELSE map[n]],
     result |-> Ok("self")]

\* Server::add_issuer: the new registry and the call's result
add_issuer(map, issuer) ==
    IF issuer.name \notin DOMAIN map
    THEN [map |-> [n \in (DOMAIN map) \cup {issuer.name} |->
                      IF n = issuer.name THEN issuer ELSE map[n]],
          result |-> Ok("self")]
    ELSE [map |-> map, result |-> Err([kind |-> "DuplicateIssuer", name |-> issuer.name])]

\* the registry of the running server: alpha and beta were added
ServingIssuers ==
    add_issuer(add_issuer(NewIssuers, Issuer("alpha", "k1")).map, Issuer("beta", "k2")).map

\* ApplicationState::issuer: the record of a name, by exact match
issuer(map, name) ==
    IF name \in DOMAIN map THEN [some |-> TRUE, state |-> map[name]] ELSE [some |-> FALSE]

\* ------------------------------------------------------------------------
\* URLs
\* ------------------------------------------------------------------------

\* the connection context of a request: scheme and host as the client (or a
\* proxy in front of the server) gave them
MalformedHosts == {"bad host"}
ConnInfos ==
    {[scheme |-> "http", host |-> "localhost:8080"],
     [scheme |-> "https", host |-> "idp.example"],
     [scheme |-> "http", host |-> "bad host"]}

\* a hierarchical URL: scheme://host/seg1/seg2...
Url(scheme, host, path) ==
    [scheme |-> scheme, host |-> host, path |-> path, cannot_be_a_base |-> FALSE]

\* ApplicationState::build_base: the origin of this connection; it fails when
\* the host does not make a valid URL
build_base(conn) ==
    IF conn.host \in MalformedHosts
    THEN Err("Url")
    ELSE Ok(Url(conn.scheme, conn.host, <<>>))

\* PathSegmentsMut::push: appends one segment; "." and ".." are skipped
push(url, segment) ==
    IF segment \in {".", ".."} THEN url ELSE [url EXCEPT !.path = Append(@, segment)]

\* mutant of issuer_url: the origin is a fixed one, not the connection's
issuer_url_static(conn, name) ==
    LET base == build_base(conn)
    IN  IF ~base.ok THEN Err("Url")
        ELSE IF base.val.cannot_be_a_base THEN Err("Url")
        ELSE Ok(push(Url("http", "localhost:8080", <<>>), name))

\* issuer_url: the base URL with the issuer name as a path segment
issuer_url(conn, name) ==
    LET base == build_base(conn)
    IN  IF ~base.ok THEN Err("Url")
        ELSE IF base.val.cannot_be_a_base THEN Err("Url")
        ELSE Ok(push(base.val, name))

\* ------------------------------------------------------------------------
\* JSON values and response bodies
\* ------------------------------------------------------------------------

JNull == [j |-> "null"]
JNum(n) == [j |-> "num", n |-> n]
JStr(s) == [j |-> "str", s |-> s]
JArr == [j |-> "arr"]
JObj(f) == [j |-> "obj", f |-> f]
\* the JSON string holding a signed identity assertion
JJwt(iss, key) == [j |-> "jwt", iss |-> iss, key |-> key]

\* Value::as_str: Some exactly for JSON strings
as_str(v) == IF v.j \in {"str", "jwt"} THEN [some |-> TRUE, v |-> v] ELSE [some |-> FALSE]

\* Index<&str> for Value: the member of an object, Null for anything else
Index(v, k) == IF v.j = "obj" /\ k \in DOMAIN v.f THEN v.f[k] ELSE JNull

\* mutant of IndexSet: a member that exists is kept
IndexSet_keep(v, k, x) ==
    IF k \in DOMAIN v.f THEN v
    ELSE JObj([m \in (DOMAIN v.f) \cup {k} |-> IF m = k THEN x ELSE v.f[m]])

\* IndexMut<&str> for Value on an object: insert or overwrite the member
IndexSet(v, k, x) ==
    JObj([m \in (DOMAIN v.f) \cup {k} |-> IF m = k THEN x ELSE v.f[m]])

\* a body is absent, or a string: text that is no JSON, or the serialization
\* of a JSON value as some writer laid it out
NoBody == [t |-> "absent"]
Text(s) == [t |-> "text", s |-> s]
Serialized(v, by) == [t |-> "json", v |-> v, by |-> by]

\* serde_json::from_str
from_str(body) == IF body.t = "json" THEN Ok(body.v) ELSE Err("Json")

\* serde_json::to_string
to_string(v) == Serialized(v, "serde_json")

\* OAuthResponse
Response(status, body) == [status |-> status, body |-> body]

\* OAuthResponse::get_body
get_body(resp) == IF resp.body.t = "absent" THEN [some |-> FALSE] ELSE [some |-> TRUE, body |-> resp.body]

\* OAuthResponse::body_json
body_json(resp, text) == [resp EXCEPT !.body = text]

\* JwtIdGenerator::new(key, issuer).create(): the signed assertion, or the
\* signer's failure
create(key, iss, sign_ok) == IF sign_ok THEN Ok(JJwt(iss, key)) ELSE Err("Generic")

\* mutant of amend_id_token: a body it cannot amend is an error
amend_id_token_strict(resp, iss_state, conn, issuer_name, sign_ok) ==
    LET body == get_body(resp)
        parsed == IF body.some THEN from_str(body.body) ELSE Err("Json")
    IN  IF ~body.some \/ ~parsed.ok THEN Err("Generic")
        ELSE
        LET value == parsed.val
        IN  IF ~as_str(Index(value, "access_token")).some THEN Err("Generic")
            ELSE
            LET base == issuer_url(conn, issuer_name)
            IN  IF ~base.ok THEN Err(base.err)
                ELSE
                LET id_token == create(iss_state.key, base.val, sign_ok)
                IN  IF ~id_token.ok THEN Err(id_token.err)
                    ELSE Ok(body_json(resp, to_string(IndexSet(value, "id_token", id_token.val))))

\* amend_id_token: take a token response and add an id token
amend_id_token(resp, iss_state, conn, issuer_name, sign_ok) ==
    LET body == get_body(resp)
        parsed == IF body.some THEN from_str(body.body) ELSE Err("Json")
    IN  IF ~body.some \/ ~parsed.ok THEN Ok(resp)
        ELSE
        LET value == parsed.val
        IN  IF ~as_str(Index(value, "access_token")).some THEN Ok(resp)
            ELSE
            LET base == issuer_url(conn, issuer_name)
            IN  IF ~base.ok THEN Err(base.err)
                ELSE
                LET id_token == create(iss_state.key, base.val, sign_ok)
                IN  IF ~id_token.ok THEN Err(id_token.err)
                    ELSE Ok(body_json(resp, to_string(IndexSet(value, "id_token", id_token.val))))

\* ------------------------------------------------------------------------
\* Routes
\* ------------------------------------------------------------------------

Methods == {"GET", "POST"}
\* what follows /{issuer} in the request path
Suffixes == {"", ".well-known/openid-configuration", "auth", "keys", "userinfo", "token"}

\* the #[get(...)] and #[post(...)] attributes of the handlers
HandlerRoute ==
    [discovery |-> <<"GET", ".well-known/openid-configuration">>,
     index |-> <<"GET", "">>,
     auth_get |-> <<"GET", "auth">>,
     auth_post |-> <<"POST", "auth">>,
     keys |-> <<"GET", "keys">>,
     userinfo_get |-> <<"GET", "userinfo">>,
     token |-> <<"POST", "token">>]

\* the services Server::run registers on the App
Services == {"index", "discovery", "auth_get", "auth_post", "keys", "token"}

\* the handler a request is dispatched to; a request no service matches is
\* answered by the App's default service (404)
route(method, suffix) ==
    IF \E h \in Services : HandlerRoute[h] = <<method, suffix>>
    THEN CHOOSE h \in Services : HandlerRoute[h] = <<method, suffix>>
    ELSE "default_service"

\* the handlers that take the issuer's write lock
Locking == {"auth_get", "auth_post", "token"}

\* handlers that only read the issuer: key export and userinfo
Reading == {"keys", "userinfo_get"}

\* the handlers that extract the ConnectionInfo of the request
ExtractsConn == {"discovery", "auth_get", "auth_post", "token"}
NoConn == [scheme |-> "-", host |-> "-"]
ConnOf(h) == IF h \in ExtractsConn THEN ConnInfos ELSE {NoConn}

\* ------------------------------------------------------------------------
\* Handlers without a suspension on the engine
\* ------------------------------------------------------------------------

\* discovery: the issuer URL first, then the issuer
discovery(map, name, conn) ==
    LET base == issuer_url(conn, name)
    IN  IF ~base.ok THEN Err(base.err)
        ELSE IF ~issuer(map, name).some THEN Err("UnknownIssuer")
        ELSE Ok([kind |-> "discovery", issuer |-> base.val])

\* mutant of index: the issuer is not looked up
index_unchecked(map, name) == Ok([kind |-> "text", issuer_name |-> name])

\* index
index(map, name) ==
    IF ~issuer(map, name).some THEN Err("UnknownIssuer")
    ELSE Ok([kind |-> "text", issuer_name |-> name])

\* keys
keys(map, name) ==
    IF ~issuer(map, name).some THEN Err("UnknownIssuer")
    ELSE Ok([kind |-> "jwks", public_of |-> issuer(map, name).state.key])

\* userinfo_get
userinfo_get(map, name) ==
    IF ~issuer(map, name).some THEN Err("UnknownIssuer")
    ELSE Ok([kind |-> "claims", issuer_name |-> name])

\* the answer of the App's default service
default_service == Err("NotFound")

\* ------------------------------------------------------------------------
\* The token request and the protocol engine
\* ------------------------------------------------------------------------

\* the form body of a token request: absent, or the values given for
\* grant_type
NoGrant == [body |-> FALSE, grant_type |-> <<>>]
GrantInputs ==
    {NoGrant,
     [body |-> TRUE, grant_type |-> <<>>],
     [body |-> TRUE, grant_type |-> <<"client_credentials">>],
     [body |-> TRUE, grant_type |-> <<"authorization_code">>],
     [body |-> TRUE, grant_type |-> <<"client_credentials", "authorization_code">>]}

\* req.body().and_then(|body| body.unique_value("grant_type"))
grant_type(g) ==
    IF g.body /\ Len(g.grant_type) = 1
    THEN [some |-> TRUE, v |-> g.grant_type[1]]
    ELSE [some |-> FALSE]

\* mutant of flow_of: the first grant_type value decides, not the unique one
flow_of_first(h, g) ==
    IF h = "token"
    THEN IF g.body /\ Len(g.grant_type) > 0 /\ g.grant_type[1] = "client_credentials"
         THEN "client_credentials"
         ELSE "token"
    ELSE "authorize"

\* mutant of flow_of: every token request takes the generic branch
flow_of_generic(h, g) ==
    IF h = "token" THEN "token" ELSE "authorize"

\* the protocol operation a locking handler runs: the match of token
flow_of(h, g) ==
    IF h = "token"
    THEN IF grant_type(g).some /\ grant_type(g).v = "client_credentials"
         THEN "client_credentials"
         ELSE "token"
    ELSE "authorize"

\* the state of one issuer's engine: authorization codes outstanding in the
\* authorizer, tokens minted by the issuer
EngineState(c, t) == [codes |-> c, tokens |-> t]

\* what the protocol engine makes of a request, given the state it read:
\* granted (a success response), rejected (an error response) or failed (an
\* error of the endpoint)
Outcomes(flow, e) ==
    {"rejected", "failed"} \cup
    (CASE flow = "authorize" -> IF e.codes < MaxCodes THEN {"granted"} ELSE {}
       [] flow = "client_credentials" -> IF e.tokens < MaxTokens THEN {"granted"} ELSE {}
       [] flow = "token" -> IF e.codes > 0 /\ e.tokens < MaxTokens THEN {"granted"} ELSE {})

\* the engine state an operation leaves, from the state it read
Mutated(flow, e, outcome) ==
    IF outcome # "granted" THEN e
    ELSE CASE flow = "authorize" -> EngineState(e.codes + 1, e.tokens)
           [] flow = "client_credentials" -> EngineState(e.codes, e.tokens + 1)
           [] flow = "token" -> EngineState(e.codes - 1, e.tokens + 1)

\* the bodies the engine sends
TokenBody ==
    Serialized(JObj([access_token |-> JStr("token"), token_type |-> JStr("bearer")]), "oxide_auth")
ErrorBody == Serialized(JObj([error |-> JStr("invalid_request")]), "oxide_auth")

\* the result of running an operation: Result<OAuthResponse, WebError>
Ran(flow, outcome) ==
    CASE outcome = "failed" -> Err("Web")
      [] outcome = "rejected" -> Ok(Response(400, ErrorBody))
      [] outcome = "granted" /\ flow = "authorize" -> Ok(Response(302, NoBody))
      [] outcome = "granted" /\ flow # "authorize" -> Ok(Response(200, TokenBody))

\* client identities of the requests
Clients == {"c1", "c2"}

\* what the solicitor of a flow answered for the pre-grant of a client; a
\* flow that did not get to ask it has NotAsked
NotAsked == [client_id |-> "-", decision |-> "-", owner |-> "-"]

\* mutant of solicitor: client credentials are granted to the placeholder too
solicitor_placeholder(flow, client_id) ==
    [client_id |-> client_id, decision |-> "Authorized", owner |-> "Marvin"]

\* the FnSolicitor closures: auth_get authorizes "Marvin", the client
\* credentials branch authorizes the client_id of the solicitation's pre-grant
solicitor(flow, client_id) ==
    [client_id |-> client_id, decision |-> "Authorized",
     owner |-> IF flow = "authorize" THEN "Marvin" ELSE client_id]

\* a grant is made on the solicitor's answer for the client of the request;
\* the code exchange of the generic branch asks no solicitor
Consents(flow, outcome) ==
    IF outcome = "granted" /\ flow \in {"authorize", "client_credentials"}
    THEN {solicitor(flow, c) : c \in Clients}
    ELSE {NotAsked}

\* mutant of Returned: the generic branch resolves the issuer URL before it
\* looks at the result of the operation
Returned_eager(flow, ran, iss_state, conn, name, sign_ok) ==
    IF flow = "token"
    THEN IF ~issuer_url(conn, name).ok THEN Err("Url")
         ELSE IF ran.ok THEN amend_id_token(ran.val, iss_state, conn, name, sign_ok)
         ELSE ran
    ELSE ran

\* what a locking handler returns once its operation ran: the arms of token's
\* match, and auth_get's Ok(..)
Returned(flow, ran, iss_state, conn, name, sign_ok) ==
    IF flow = "token" /\ ran.ok
    THEN amend_id_token(ran.val, iss_state, conn, name, sign_ok)
    ELSE ran

\* ------------------------------------------------------------------------
\* State
\* ------------------------------------------------------------------------

VARIABLES
    issuers,    \* Server.issuers / ApplicationState: name -> Issuer
    added,      \* the last add_issuer call: its argument and its result
    adds,       \* add_issuer calls made so far
    lock,       \* per issuer: the request holding the write guard of inner,
                \* or minus the number of read guards that are out
    engine,     \* per issuer: the state of inner.endpoint
    committed,  \* per issuer: the engine state the last finished operation left
    req,        \* per worker task: where its locking handler stands
    trace,      \* whether the answers sent are recorded in last
    last,       \* the answer the step just taken sent, with its request
    call        \* the last call of the function checked alone: arguments and result

vars == <<issuers, added, adds, lock, engine, committed, req, trace, last, call>>

NoAdded == [called |-> FALSE]
NoCall == [called |-> FALSE]
NoLast == [handler |-> "none"]

Idle ==
    [pc |-> "idle", h |-> "-", name |-> "-", grant |-> NoGrant, flow |-> "-",
     snap |-> EngineState(0, 0), outcome |-> "-"]

\* an answered request, when answers are recorded
Answer(method, suffix, name, h, conn, grant, flow, consent, ran, sign_ok, result) ==
    IF trace
    THEN [method |-> method, suffix |-> suffix, name |-> name, handler |-> h,
          conn |-> conn, grant |-> grant, flow |-> flow, consent |-> consent,
          ran |-> ran, sign_ok |-> sign_ok, result |-> result]
    ELSE NoLast

\* the running server, as ServerState::new and HttpServer::new leave it, with
\* the given worker tasks, its answers recorded or not
Serving(tasks, recorded) ==
    /\ issuers = ServingIssuers
    /\ added = NoAdded
    /\ adds = 0
    /\ lock = [n \in DOMAIN ServingIssuers |-> NoReq]
    /\ engine = [n \in DOMAIN ServingIssuers |-> EngineState(0, 0)]
    /\ committed = [n \in DOMAIN ServingIssuers |-> EngineState(0, 0)]
    /\ req = [r \in tasks |-> Idle]
    /\ trace = recorded
    /\ last = NoLast
    /\ call = NoCall

Init == Serving(Reqs, FALSE)

\* ------------------------------------------------------------------------
\* Requests
\* ------------------------------------------------------------------------

\* a request for discovery or index, or one no service matches: the handler
\* runs to its answer
Serve ==
    \E method \in Methods, suffix \in Suffixes, name \in Names :
        LET h == route(method, suffix)
        IN  /\ h \notin Locking \cup Reading
            /\ \E conn \in ConnOf(h) :
                 last' = Answer(method, suffix, name, h, conn, NoGrant, "-", NotAsked, Err("-"), TRUE,
                                CASE h = "discovery" -> discovery(issuers, name, conn)
                                  [] h = "index" -> index(issuers, name)
                                  [] OTHER -> default_service)
            /\ UNCHANGED <<issuers, added, adds, lock, engine, committed, req, call, trace>>

\* auth_get, auth_post, token up to the await of the write lock: an unknown
\* issuer is answered at once, a known one makes the task wait for the lock
Start(r) ==
    /\ req[r].pc = "idle"
    /\ \E method \in Methods, suffix \in Suffixes, name \in Names :
        LET h == route(method, suffix)
        IN  /\ h \in Locking
            /\ IF issuer(issuers, name).some
               THEN /\ req' = [req EXCEPT ![r] = [Idle EXCEPT !.pc = "wait", !.h = h, !.name = name]]
                    /\ last' = NoLast
               ELSE /\ \E conn \in ConnOf(h) :
                         last' = Answer(method, suffix, name, h, conn, NoGrant, "-", NotAsked, Err("-"),
                                        TRUE, Err("UnknownIssuer"))
                    /\ UNCHANGED req
    /\ UNCHANGED <<issuers, added, adds, lock, engine, committed, call, trace>>

\* mutant of write_ready: no mutual exclusion
write_ready_always(l, name) == TRUE

\* mutant of write_ready: one lock for the whole server
write_ready_global(l, name) == \A n \in DOMAIN l : l[n] = NoReq

\* RwLock::write is ready when nobody holds the issuer's lock
write_ready(l, name) == l[name] = NoReq

\* issuer.inner.write().await: the task gets the write guard
Acquire(r) ==
    /\ req[r].pc = "wait"
    /\ write_ready(lock, req[r].name)
    /\ lock' = [lock EXCEPT ![req[r].name] = r]
    /\ req' = [req EXCEPT ![r].pc = "held"]
    /\ last' = NoLast
    /\ UNCHANGED <<issuers, added, adds, engine, committed, call, trace>>

\* under the guard: token reads grant_type and picks its branch, the flow is
\* composed on the engine and the operation reads the engine state; the
\* grant_type read is kept for the record of the answer
Operate(r) ==
    /\ req[r].pc = "held"
    /\ \E g \in (IF req[r].h = "token" THEN GrantInputs ELSE {NoGrant}) :
        req' = [req EXCEPT ![r].pc = "run", ![r].flow = flow_of(req[r].h, g),
                           ![r].grant = IF trace THEN g ELSE NoGrant,
                           ![r].snap = engine[req[r].name]]
    /\ last' = NoLast
    /\ UNCHANGED <<issuers, added, adds, lock, engine, committed, call, trace>>

\* a granted code exchange first takes the code out of the authorizer
Consume(r) ==
    /\ req[r].pc = "run"
    /\ req[r].flow = "token"
    /\ "granted" \in Outcomes("token", req[r].snap)
    /\ engine' = [engine EXCEPT ![req[r].name] = EngineState(req[r].snap.codes - 1, req[r].snap.tokens)]
    /\ req' = [req EXCEPT ![r].pc = "mid"]
    /\ last' = NoLast
    /\ UNCHANGED <<issuers, added, adds, lock, committed, call, trace>>

\* mutant of drop: the lock stays taken
drop_leak(l, name) == l

\* the write guard goes out of scope: the issuer's lock is free again
drop(l, name) == [l EXCEPT ![name] = NoReq]

\* mutant of Finish: the guard is dropped when the operation has run, before
\* the amendment
Finish_release_early(r) ==
    /\ req[r].pc \in {"run", "mid"}
    /\ \E outcome \in Outcomes(req[r].flow, req[r].snap) :
       LET name == req[r].name
           flow == req[r].flow
           ran == Ran(flow, outcome)
           after == Mutated(flow, req[r].snap, outcome)
       IN  /\ (req[r].pc = "mid") = (flow = "token" /\ outcome = "granted")
           /\ engine' = [engine EXCEPT ![name] = after]
           /\ committed' = [committed EXCEPT ![name] = after]
           /\ lock' = drop(lock, name)
           /\ IF flow = "token" /\ ran.ok
              THEN /\ req' = [req EXCEPT ![r].pc = "amend", ![r].outcome = outcome]
                   /\ last' = NoLast
              ELSE /\ req' = [req EXCEPT ![r] = Idle]
                   /\ \E conn \in ConnInfos, consent \in Consents(flow, outcome) :
                        last' = Answer(HandlerRoute[req[r].h][1], HandlerRoute[req[r].h][2], name,
                                       req[r].h, conn, req[r].grant, flow, consent, ran, TRUE,
                                       Returned(flow, ran, issuers[name], conn, name, TRUE))
    /\ UNCHANGED <<issuers, added, adds, call, trace>>

\* the operation completes its mutation and returns its result; the generic
\* branch of token goes on to the amendment with an Ok result, every other
\* handler returns and its guard is dropped
Finish(r) ==
    /\ req[r].pc \in {"run", "mid"}
    /\ \E outcome \in Outcomes(req[r].flow, req[r].snap) :
       LET name == req[r].name
           flow == req[r].flow
           ran == Ran(flow, outcome)
           after == Mutated(flow, req[r].snap, outcome)
       IN  /\ (req[r].pc = "mid") = (flow = "token" /\ outcome = "granted")
           /\ engine' = [engine EXCEPT ![name] = after]
           /\ committed' = [committed EXCEPT ![name] = after]
           /\ IF flow = "token" /\ ran.ok
              THEN /\ req' = [req EXCEPT ![r].pc = "amend", ![r].outcome = outcome]
                   /\ last' = NoLast
                   /\ UNCHANGED lock
              ELSE /\ req' = [req EXCEPT ![r] = Idle]
                   /\ lock' = drop(lock, name)
                   /\ \E conn \in ConnInfos, consent \in Consents(flow, outcome) :
                        last' = Answer(HandlerRoute[req[r].h][1], HandlerRoute[req[r].h][2], name,
                                       req[r].h, conn, req[r].grant, flow, consent, ran, TRUE,
                                       Returned(flow, ran, issuers[name], conn, name, TRUE))
    /\ UNCHANGED <<issuers, added, adds, call, trace>>

\* mutant of Return: an amendment that fails puts the engine back to the
\* state the operation had read
Return_rollback(r) ==
    /\ req[r].pc = "amend"
    /\ \E conn \in ConnInfos, sign_ok \in BOOLEAN :
       LET name == req[r].name
           ran == Ran(req[r].flow, req[r].outcome)
           result == Returned(req[r].flow, ran, issuers[name], conn, name, sign_ok)
       IN  /\ last' = Answer(HandlerRoute[req[r].h][1], HandlerRoute[req[r].h][2], name,
                             req[r].h, conn, req[r].grant, req[r].flow, NotAsked, ran, sign_ok, result)
           /\ engine' = IF result.ok THEN engine ELSE [engine EXCEPT ![name] = req[r].snap]
           /\ committed' = IF result.ok THEN committed ELSE [committed EXCEPT ![name] = req[r].snap]
    /\ lock' = drop(lock, req[r].name)
    /\ req' = [req EXCEPT ![r] = Idle]
    /\ UNCHANGED <<issuers, added, adds, call, trace>>

\* the generic branch of token amends the response of its operation, on the
\* connection of the request and with a signer that works or fails; the
\* handler returns and its guard is dropped
Return(r) ==
    /\ req[r].pc = "amend"
    /\ \E conn \in ConnInfos, sign_ok \in BOOLEAN :
       LET name == req[r].name
           ran == Ran(req[r].flow, req[r].outcome)
       IN  last' = Answer(HandlerRoute[req[r].h][1], HandlerRoute[req[r].h][2], name,
                          req[r].h, conn, req[r].grant, req[r].flow, NotAsked, ran, sign_ok,
                          Returned(req[r].flow, ran, issuers[name], conn, name, sign_ok))
    /\ lock' = drop(lock, req[r].name)
    /\ req' = [req EXCEPT ![r] = Idle]
    /\ UNCHANGED <<issuers, added, adds, engine, committed, call, trace>>

\* mutant of read_ready: readers do not wait for the writer
read_ready_always(l, name) == TRUE

\* a read guard is given when no write guard is out, whatever the number of
\* read guards
read_ready(l, name) == l[name] <= NoReq

\* keys or userinfo_get for the issuer name: an unknown issuer is answered at
\* once, for a known one the task reads the issuer under a read guard
ReadOf(r, name) ==
    /\ req[r].pc = "idle"
    /\ \E method \in Methods, suffix \in Suffixes :
        LET h == route(method, suffix)
        IN  /\ h \in Reading
            /\ IF issuer(issuers, name).some
               THEN /\ read_ready(lock, name)
                    /\ lock' = [lock EXCEPT ![name] = @ - 1]
                    /\ req' = [req EXCEPT ![r] = [Idle EXCEPT !.pc = "read", !.h = h, !.name = name]]
                    /\ last' = NoLast
               ELSE /\ last' = Answer(method, suffix, name, h, NoConn, NoGrant, "-", NotAsked, Err("-"),
                                      TRUE, Err("UnknownIssuer"))
                    /\ UNCHANGED <<req, lock>>
    /\ UNCHANGED <<issuers, added, adds, engine, committed, call, trace>>

ReadBegin(r) == \E name \in Names : ReadOf(r, name)

\* the read is done: the handler answers and the read guard is dropped
ReadEnd(r) ==
    /\ req[r].pc = "read"
    /\ last' = Answer(HandlerRoute[req[r].h][1], HandlerRoute[req[r].h][2], req[r].name,
                      req[r].h, NoConn, NoGrant, "-", NotAsked, Err("-"), TRUE,
                      CASE req[r].h = "keys" -> keys(issuers, req[r].name)
                        [] OTHER -> userinfo_get(issuers, req[r].name))
    /\ lock' = [lock EXCEPT ![req[r].name] = @ + 1]
    /\ req' = [req EXCEPT ![r] = Idle]
    /\ UNCHANGED <<issuers, added, adds, engine, committed, call, trace>>

\* the next step of a handler that holds its lock
Proceed(r) == Operate(r) \/ Consume(r) \/ Finish(r) \/ Return(r)

\* the handlers of the engine, run concurrently by the worker tasks
Next ==
    \/ \E r \in DOMAIN req : Start(r)
    \/ \E r \in DOMAIN req : Acquire(r)
    \/ \E r \in DOMAIN req : Operate(r)
    \/ \E r \in DOMAIN req : Consume(r)
    \/ \E r \in DOMAIN req : Finish(r)
    \/ \E r \in DOMAIN req : Return(r)

Spec == Init /\ [][Next]_vars

\* Spec with the scheduling the handlers rely on: the code after the await is
\* synchronous and runs on, and the lock serves its waiters in turn, so a
\* waiter that can take the lock again and again does take it
Fairness ==
    \A r \in Reqs : WF_vars(Proceed(r)) /\ SF_vars(Acquire(r))

SpecFair == Spec /\ Fairness

\* one task serving every route, one request after the other, every answer
\* recorded
InitHttp == Serving({1}, TRUE)

NextHttp ==
    \/ Serve
    \/ Start(1)
    \/ Acquire(1)
    \/ Operate(1)
    \/ Consume(1)
    \/ Finish(1)
    \/ Return(1)
    \/ ReadBegin(1)
    \/ ReadEnd(1)

SpecHttp == InitHttp /\ [][NextHttp]_vars

\* the worker tasks running the reading handlers next to the locking ones
NextRead ==
    \/ Next
    \/ \E r \in DOMAIN req : ReadBegin(r)
    \/ \E r \in DOMAIN req : ReadEnd(r)

SpecRead == Init /\ [][NextRead]_vars

\* ------------------------------------------------------------------------
\* The builder alone: add_issuer calls on a new Server
\* ------------------------------------------------------------------------

InitBuild ==
    /\ issuers = NewIssuers
    /\ added = NoAdded
    /\ adds = 0
    /\ lock = [n \in {} |-> NoReq]
    /\ engine = [n \in {} |-> EngineState(0, 0)]
    /\ committed = [n \in {} |-> EngineState(0, 0)]
    /\ req = [r \in {} |-> Idle]
    /\ trace = FALSE
    /\ last = NoLast
    /\ call = NoCall

AddIssuer ==
    /\ adds < MaxAdds
    /\ \E i \in IssuerInputs :
        LET res == add_issuer(issuers, i)
        IN  /\ issuers' = res.map
            /\ added' = [called |-> TRUE, issuer |-> i, result |-> res.result]
    /\ adds' = adds + 1
    /\ UNCHANGED <<lock, engine, committed, req, last, call, trace>>

NextBuild == AddIssuer

SpecBuild == InitBuild /\ [][NextBuild]_vars

\* ------------------------------------------------------------------------
\* amend_id_token alone, on any token response, and applied a second time to
\* its own result
\* ------------------------------------------------------------------------

Members == {"access_token", "id_token", "token_type"}
AccessTokenInputs == {JStr("token"), JNum(1), JNull}
ObjectInputs ==
    {JObj([m \in S |-> CASE m = "access_token" -> a
                         [] m = "id_token" -> JStr("old")
                         [] OTHER -> JStr("bearer")]) :
        S \in SUBSET Members, a \in AccessTokenInputs}
JsonInputs == ObjectInputs \cup {JNull, JNum(1), JStr("token"), JArr}
BodyInputs ==
    {NoBody, Text(""), Text("not json")} \cup {Serialized(v, "oxide_auth") : v \in JsonInputs}
ResponseInputs == {Response(200, b) : b \in BodyInputs}

InitAmend == Serving({}, FALSE)

Amend ==
    /\ \E resp \in ResponseInputs, name \in DOMAIN issuers, conn \in ConnInfos, sign_ok \in BOOLEAN :
        LET out == amend_id_token(resp, issuers[name], conn, name, sign_ok)
        IN  call' = [called |-> TRUE, resp |-> resp, name |-> name, conn |-> conn,
                     sign_ok |-> sign_ok,
                     out |-> out,
                     again |-> IF out.ok
                               THEN amend_id_token(out.val, issuers[name], conn, name, sign_ok)
                               ELSE out]
    /\ UNCHANGED <<issuers, added, adds, lock, engine, committed, req, last, trace>>

NextAmend == Amend

SpecAmend == InitAmend /\ [][NextAmend]_vars

\* ------------------------------------------------------------------------
\* issuer_url alone, for the issuers of any registry
\* ------------------------------------------------------------------------

\* names an issuer can be registered and requested under: Issuer.name is any
\* String and {issuer} matches any one path segment
TenantNames == {"alpha", "beta", "gamma", "foo", ".", ".."}

\* the registry Server::add_issuer builds from one issuer per tenant name
RECURSIVE AddAll(_, _)
AddAll(map, names) ==
    IF names = {} THEN map
    ELSE LET n == CHOOSE x \in names : TRUE
         IN  AddAll(add_issuer(map, Issuer(n, "k1")).map, names \ {n})
UrlIssuers == AddAll(NewIssuers, TenantNames)

InitUrl ==
    /\ issuers = UrlIssuers
    /\ added = NoAdded
    /\ adds = 0
    /\ lock = [n \in DOMAIN UrlIssuers |-> NoReq]
    /\ engine = [n \in DOMAIN UrlIssuers |-> EngineState(0, 0)]
    /\ committed = [n \in DOMAIN UrlIssuers |-> EngineState(0, 0)]
    /\ req = [r \in {} |-> Idle]
    /\ trace = FALSE
    /\ last = NoLast
    /\ call = NoCall

\* one connection asks for two issuers: issuer_url of both, the discovery
\* document of the first and the amendment of a token response of the first
Resolve ==
    /\ \E conn \in ConnInfos, a \in DOMAIN issuers, b \in DOMAIN issuers :
        call' = [called |-> TRUE, conn |-> conn, a |-> a, b |-> b,
                 url_a |-> issuer_url(conn, a),
                 url_b |-> issuer_url(conn, b),
                 doc |-> discovery(issuers, a, conn),
                 amended |-> amend_id_token(Response(200, TokenBody), issuers[a], conn, a, TRUE)]
    /\ UNCHANGED <<issuers, added, adds, lock, engine, committed, req, last, trace>>

NextUrl == Resolve

SpecUrl == InitUrl /\ [][NextUrl]_vars

\* ------------------------------------------------------------------------
\* Properties
\* ------------------------------------------------------------------------

\* the task holds the write guard of its issuer
Holding(r) == req[r].pc \in {"held", "run", "mid", "amend"}
\* the task's protocol operation is executing
Operating(r) == req[r].pc \in {"run", "mid"}

\* the answer is a response whose body is a JSON object with member k
HasMember(result, k) ==
    /\ result.ok
    /\ result.val.body.t = "json"
    /\ result.val.body.v.j = "obj"
    /\ k \in DOMAIN result.val.body.v.f
MemberOf(result, k) == result.val.body.v.f[k]

\* the body is JSON with an access_token member that is a string
HasAccessToken(body) ==
    /\ body.t = "json"
    /\ body.v.j = "obj"
    /\ "access_token" \in DOMAIN body.v.f
    /\ body.v.f["access_token"].j \in {"str", "jwt"}

Answered == last.handler # "none"
IsUnknownIssuer(result) == ~result.ok /\ result.err = "UnknownIssuer"

\* C1: per issuer, at most one auth_get or token handler holds the write lock,
\* and a handler runs its protocol operation only while it is the holder of
\* its issuer's lock.
C1_OneWriterPerIssuer ==
    /\ \A r1 \in DOMAIN req, r2 \in DOMAIN req :
         (r1 # r2 /\ Holding(r1) /\ Holding(r2)) => req[r1].name # req[r2].name
    /\ \A r \in DOMAIN req : Holding(r) => lock[req[r].name] = r

\* C1 witness: a token operation runs on an issuer while a second handler for
\* the same issuer waits for the lock.
C1_Witness ==
    \E r1 \in DOMAIN req, r2 \in DOMAIN req :
        /\ req[r1].pc = "run" /\ req[r1].h = "token"
        /\ req[r2].pc = "wait" /\ req[r2].name = req[r1].name

\* C2: a handler waiting for issuer A's lock can take it whenever no handler
\* holds A's lock, whatever is held on other issuers, and a step of a handler
\* for another issuer leaves A's engine state and A's lock as they were.
C2_IssuersIndependent ==
    /\ [](\A r \in DOMAIN req :
            (req[r].pc = "wait"
             /\ \A r2 \in DOMAIN req : Holding(r2) => req[r2].name # req[r].name)
            => ENABLED Acquire(r))
    /\ [][\A n \in DOMAIN issuers :
            (\A r \in DOMAIN req : req'[r] # req[r] => n \notin {req[r].name, req'[r].name})
            => (engine'[n] = engine[n] /\ lock'[n] = lock[n] /\ committed'[n] = committed[n])]_vars

\* C2 witness: operations run on two issuers at the same time.
C2_Witness ==
    \E r1 \in DOMAIN req, r2 \in DOMAIN req :
        /\ Operating(r1) /\ Operating(r2)
        /\ req[r1].name = "alpha" /\ req[r2].name = "beta"

\* C3: an operation that has read the engine state of its issuer read the
\* state the last finished operation on that issuer left, and no other
\* operation on the issuer has finished since: never a state from before a
\* concurrent mutation completed, never a half mutated one.
C3_Serialized ==
    \A r \in DOMAIN req : Operating(r) => req[r].snap = committed[req[r].name]

\* C3 witness: one operation is half way through its mutation while a second
\* request for the same issuer waits for the lock.
C3_Witness ==
    \E r1 \in DOMAIN req, r2 \in DOMAIN req :
        /\ req[r1].pc = "mid" /\ engine[req[r1].name] # committed[req[r1].name]
        /\ req[r2].pc = "wait" /\ req[r2].name = req[r1].name

\* C4: a token request whose grant_type is client_credentials takes the
\* client-credentials branch, is answered with exactly what that operation
\* returned, and its response carries no id_token.
C4_ClientCredentialsNotAmended ==
    (/\ Answered
     /\ last.handler = "token"
     /\ last.grant.body
     /\ last.grant.grant_type = <<"client_credentials">>)
    => /\ last.flow = "client_credentials"
       /\ last.result = last.ran
       /\ ~HasMember(last.result, "id_token")

\* C4 witness: a granted client-credentials request was answered.
C4_Witness ==
    /\ Answered
    /\ last.grant.grant_type = <<"client_credentials">>
    /\ HasMember(last.result, "access_token")

\* C5: a generic-flow token request that succeeded with an access_token, for
\* which the issuer URL resolves and signing succeeds, is answered with both
\* access_token and id_token, and the id_token's issuer is the origin of the
\* request's own connection followed by the issuer name.
C5_GenericAmended ==
    (/\ Answered
     /\ last.flow = "token"
     /\ last.ran.ok
     /\ HasAccessToken(last.ran.val.body)
     /\ last.conn.host \notin MalformedHosts
     /\ last.sign_ok)
    => /\ HasMember(last.result, "access_token")
       /\ HasMember(last.result, "id_token")
       /\ MemberOf(last.result, "id_token").j = "jwt"
       /\ MemberOf(last.result, "id_token").iss =
              Url(last.conn.scheme, last.conn.host, <<last.name>>)

\* C5 witness: a code exchange on a proxied connection was answered with an
\* id_token.
C5_Witness ==
    /\ Answered
    /\ last.flow = "token"
    /\ last.conn.host = "idp.example"
    /\ HasMember(last.result, "id_token")

\* C6: a response whose body is absent, is no JSON, or is JSON without an
\* access_token string comes back from the amendment as Ok and unchanged,
\* whatever the connection and the signer would have done.
C6_PassThrough ==
    (call.called /\ ~HasAccessToken(call.resp.body)) => call.out = Ok(call.resp)

\* C6 witness: a JSON object without access_token passed through although the
\* host is malformed and the signer fails.
C6_Witness ==
    /\ call.called
    /\ call.resp.body.t = "json"
    /\ call.resp.body.v.j = "obj"
    /\ "access_token" \notin DOMAIN call.resp.body.v.f
    /\ call.conn.host \in MalformedHosts
    /\ ~call.sign_ok
    /\ call.out = Ok(call.resp)

NameHandlers == {"index", "auth_get", "keys", "userinfo_get", "token"}

\* C7: index, auth_get, keys, userinfo_get and token answer UnknownIssuer
\* exactly for unregistered names and work on the record of the name for
\* registered ones; the step answering an unregistered name changes no
\* engine, no lock and no task.
C7_UnknownIssuer ==
    /\ [](/\ (Answered /\ last.handler \in NameHandlers)
             => (IsUnknownIssuer(last.result) <=> last.name \notin DOMAIN issuers)
          /\ (Answered /\ last.handler = "keys" /\ last.name \in DOMAIN issuers)
             => (last.result.ok /\ last.result.val.public_of = issuers[last.name].key)
          /\ \A n \in Names : IsUnknownIssuer(userinfo_get(issuers, n)) <=> n \notin DOMAIN issuers
          /\ \A r \in DOMAIN req : req[r].pc # "idle" => req[r].name \in DOMAIN issuers)
    /\ [][(last'.handler \in NameHandlers /\ last'.name \notin DOMAIN issuers)
          => UNCHANGED <<engine, lock, committed, req>>]_vars

\* C7 witness: a token request for an unregistered name was answered.
C7_Witness ==
    /\ Answered
    /\ last.handler = "token"
    /\ last.name \notin DOMAIN issuers
    /\ IsUnknownIssuer(last.result)

\* C8: a discovery request for an unregistered name is answered UnknownIssuer,
\* on every connection.
C8_DiscoveryUnknownIssuer ==
    (Answered /\ last.handler = "discovery" /\ last.name \notin DOMAIN issuers)
    => IsUnknownIssuer(last.result)

\* C9: every key of the registry maps to the issuer of that name; add_issuer
\* with a name already present returns DuplicateIssuer with that name and
\* leaves the registry as it was, add_issuer with a new name adds that one
\* issuer and keeps the others.
C9_AddIssuer ==
    /\ [](\A n \in DOMAIN issuers : issuers[n].name = n)
    /\ [][adds' # adds =>
            LET i == added'.issuer
            IN  IF i.name \in DOMAIN issuers
                THEN /\ added'.result = Err([kind |-> "DuplicateIssuer", name |-> i.name])
                     /\ issuers' = issuers
                ELSE /\ added'.result.ok
                     /\ DOMAIN issuers' = (DOMAIN issuers) \cup {i.name}
                     /\ issuers'[i.name] = i
                     /\ \A n \in DOMAIN issuers : issuers'[n] = issuers[n]]_vars

\* C9 witness: a second issuer of a registered name was refused and the first
\* one is still registered.
C9_Witness ==
    /\ added.called
    /\ ~added.result.ok
    /\ added.issuer.name \in DOMAIN issuers
    /\ issuers[added.issuer.name].key # added.issuer.key

\* C10: a GET of /{issuer}/userinfo for a registered issuer is served by the
\* userinfo handler and answered with the issuer's claims.
C10_UserinfoServed ==
    (Answered /\ last.method = "GET" /\ last.suffix = "userinfo" /\ last.name \in DOMAIN issuers)
    => (last.handler = "userinfo_get" /\ last.result.ok /\ last.result.val.kind = "claims")

\* C11: on a connection whose base URL resolves, the issuer URL of a tenant is
\* the base URL with the tenant's name appended as one path segment; two
\* distinct tenants get URLs that differ in that segment; the discovery
\* document and the id_token of the tenant carry that same issuer.
C11_IssuerUrl ==
    (call.called /\ build_base(call.conn).ok)
    => /\ call.url_a = Ok(Url(call.conn.scheme, call.conn.host, <<call.a>>))
       /\ call.a # call.b => call.url_a # call.url_b
       /\ call.doc.ok /\ call.doc.val.issuer = call.url_a.val
       /\ HasMember(call.amended, "id_token")
       /\ MemberOf(call.amended, "id_token").iss = call.url_a.val

\* C12: a token request for a registered issuer runs exactly one of the two
\* flows: the client-credentials flow when its body holds exactly one
\* grant_type value and that value is client_credentials, the generic flow in
\* every other case (no body, no grant_type, several values, another value).
C12_Dispatch ==
    (Answered /\ last.handler = "token" /\ last.name \in DOMAIN issuers)
    => /\ last.flow \in {"client_credentials", "token"}
       /\ last.flow = "client_credentials"
            <=> (/\ last.grant.body
                 /\ Len(last.grant.grant_type) = 1
                 /\ last.grant.grant_type[1] = "client_credentials")

\* C12 witness: a request with two grant_type values, the first of them
\* client_credentials, was answered by the generic flow.
C12_Witness ==
    /\ Answered
    /\ last.handler = "token"
    /\ last.grant.grant_type = <<"client_credentials", "authorization_code">>
    /\ last.flow = "token"

\* C13: in the generic flow the amendment acts only on an operation that
\* succeeded: an error of the operation, whether the handler's error or an
\* OAuth error response, is the answer as it is, on every connection (no
\* issuer URL was resolved, no assertion minted), and a response with an
\* access_token never is the answer as it is.
C13_AmendOnlyOnSuccess ==
    (Answered /\ last.flow = "token")
    => /\ ~last.ran.ok => last.result = last.ran
       /\ (last.ran.ok /\ ~HasAccessToken(last.ran.val.body)) => last.result = last.ran
       /\ (last.ran.ok /\ HasAccessToken(last.ran.val.body))
            => /\ last.result # last.ran
               /\ \/ HasMember(last.result, "id_token")
                  \/ ~last.result.ok /\ last.result.err \in {"Url", "Generic"}

\* C13 witness: a failed code exchange on a connection whose host is
\* malformed was answered with the error of the operation.
C13_Witness ==
    /\ Answered
    /\ last.flow = "token"
    /\ ~last.ran.ok
    /\ last.conn.host \in MalformedHosts
    /\ last.result = last.ran

\* C14: when the generic operation succeeded with an access_token and the
\* amendment then fails on the issuer URL or on signing, the request is
\* answered with an error and the engine keeps what the operation did (the
\* code consumed, the token minted): nothing is rolled back, and the next
\* operation on the issuer reads that state.
C14_NoRollback ==
    /\ [](/\ (/\ Answered
               /\ last.flow = "token"
               /\ last.ran.ok
               /\ HasAccessToken(last.ran.val.body)
               /\ (last.conn.host \in MalformedHosts \/ ~last.sign_ok))
              => ~last.result.ok
          /\ \A r \in DOMAIN req :
               req[r].pc = "run" => req[r].snap = engine[req[r].name])
    /\ [][\A r \in DOMAIN req :
            (req[r].pc = "amend" /\ req'[r].pc = "idle" /\ req[r].outcome = "granted"
             /\ ~last'.result.ok)
            => /\ engine'[req[r].name]
                    = EngineState(req[r].snap.codes - 1, req[r].snap.tokens + 1)
               /\ committed'[req[r].name] = engine'[req[r].name]]_vars

\* C14 witness: a code exchange was answered with the signer's error and the
\* issuer's engine holds the token it minted.
C14_Witness ==
    /\ Answered
    /\ last.flow = "token"
    /\ last.ran.ok
    /\ HasAccessToken(last.ran.val.body)
    /\ last.result = Err("Generic")
    /\ engine[last.name].tokens > 0

\* the task reads its issuer under a read guard
ReadingNow(r) == req[r].pc = "read"

C16_NoOtherRequestScheduled ==
    /\ [](\A r \in DOMAIN req : Holding(r) => ENABLED Proceed(r))
    /\ [][\A r \in DOMAIN req :
            Holding(r) => \A r2 \in DOMAIN req : r2 # r => req'[r2] = req[r2]]_vars

\* C16: a handler that holds the write lock never waits again: its flow
\* composition, operation and amendment can always take their next step up
\* to the return. Requests of other worker threads take steps in between,
\* but none of them comes to hold the lock of the same issuer.
C16_RunsToCompletion ==
    /\ [](\A r \in DOMAIN req : Holding(r) => ENABLED Proceed(r))
    /\ [][\A r \in DOMAIN req :
            Holding(r) => \A r2 \in DOMAIN req :
                (r2 # r /\ req'[r2] # req[r2])
                => ~(Holding(r2)' /\ req'[r2].name = req[r].name)]_vars

\* C16 witness: while a handler holds the lock of an issuer and has not yet
\* run its operation, a request for the same issuer has come in and waits.
C16_Witness ==
    \E r1 \in DOMAIN req, r2 \in DOMAIN req :
        /\ req[r1].pc = "held"
        /\ req[r2].pc = "wait" /\ req[r2].name = req[r1].name

\* the operation made its grant
Granted(ran) == ran.ok /\ ran.val.status \in {200, 302}

\* C17: the solicitor the handlers inject never denies and never defers; a
\* grant of auth_get goes to the placeholder subject "Marvin" whoever the
\* client is, a grant of the client-credentials flow goes to the client_id of
\* the request's own pre-grant, so grants to different clients have different
\* owners.
C17_Consent ==
    /\ (Answered /\ last.flow \in {"authorize", "client_credentials"})
       => /\ last.consent.decision \in {"Authorized", "-"}
          /\ Granted(last.ran)
               => /\ last.consent.decision = "Authorized"
                  /\ last.consent.client_id \in Clients
                  /\ last.consent.owner = IF last.flow = "authorize"
                                           THEN "Marvin"
                                           ELSE last.consent.client_id
    /\ \A c1 \in Clients, c2 \in Clients :
         c1 # c2 => solicitor("client_credentials", c1).owner
                      # solicitor("client_credentials", c2).owner

\* C17 witness: a client-credentials request of the second client was granted
\* to that client.
C17_Witness ==
    /\ Answered
    /\ last.flow = "client_credentials"
    /\ Granted(last.ran)
    /\ last.consent.client_id = "c2"
    /\ last.consent.owner = "c2"

\* C18: an amendment that succeeds on a body with an access_token changes
\* the id_token member and nothing else: the status and every other member,
\* access_token included, are kept, an id_token that was there is replaced
\* by the new assertion; amending the result again gives the same members
\* with the same values, but for the id_token, which again is an assertion.
C18_OnlyIdTokenChanges ==
    (call.called /\ HasAccessToken(call.resp.body) /\ call.out.ok)
    => /\ call.out.val.status = call.resp.status
       /\ HasMember(call.out, "id_token")
       /\ DOMAIN call.out.val.body.v.f = (DOMAIN call.resp.body.v.f) \cup {"id_token"}
       /\ \A m \in (DOMAIN call.resp.body.v.f) \ {"id_token"} :
            MemberOf(call.out, m) = call.resp.body.v.f[m]
       /\ MemberOf(call.out, "id_token").j = "jwt"
       /\ MemberOf(call.out, "id_token").key = issuers[call.name].key
       /\ call.again.ok
       /\ HasMember(call.again, "id_token")
       /\ DOMAIN call.again.val.body.v.f = DOMAIN call.out.val.body.v.f
       /\ \A m \in (DOMAIN call.out.val.body.v.f) \ {"id_token"} :
            MemberOf(call.again, m) = MemberOf(call.out, m)
       /\ MemberOf(call.again, "id_token").j = "jwt"

\* C18 witness: a body with access_token, token_type and an old id_token was
\* amended.
C18_Witness ==
    /\ call.called
    /\ HasAccessToken(call.resp.body)
    /\ DOMAIN call.resp.body.v.f = Members
    /\ call.resp.body.v.f["id_token"] = JStr("old")
    /\ call.out.ok
    /\ MemberOf(call.out, "id_token").j = "jwt"

\* C19: a handler holds at most one issuer's lock, and only between its
\* acquisition and its return: whenever it returns, on whatever outcome, the
\* lock it held is free again. No state with a request in flight is stuck,
\* and under fair scheduling every request that waits for a lock gets it and
\* every request in flight returns.
C19_ReleaseAndProgress ==
    /\ [](\A r \in Reqs :
            /\ Cardinality({n \in DOMAIN lock : lock[n] = r}) <= 1
            /\ \A n \in DOMAIN lock : lock[n] = r => (Holding(r) /\ req[r].name = n))
    /\ [][\A r \in Reqs :
            (Holding(r) /\ req'[r].pc = "idle") => lock'[req[r].name] = NoReq]_vars
    /\ []((\E r \in Reqs : req[r].pc # "idle")
          => ENABLED (\E r \in Reqs : Acquire(r) \/ Proceed(r)))
    /\ \A r \in Reqs : (req[r].pc = "wait") ~> (req[r].pc = "held")
    /\ \A r \in Reqs : (req[r].pc # "idle") ~> (req[r].pc = "idle")

\* C19 witness: a request waits for the lock of an issuer on which a
\* client-credentials operation runs.
C19_Witness ==
    \E r1 \in DOMAIN req, r2 \in DOMAIN req :
        /\ req[r1].pc = "wait"
        /\ req[r2].pc = "run" /\ req[r2].flow = "client_credentials"
        /\ req[r2].name = req[r1].name

\* the generic branch of token stands between its operation and the end of
\* the amendment
Amending(r) == req[r].pc = "amend"

\* C20: while the generic branch of token amends its response, the handler
\* still holds the issuer's write lock and gives it up only by returning: the
\* engine is as the token operation left it, and no other handler for the
\* issuer holds the lock or runs an operation.
C20_LockHeldThroughAmendment ==
    /\ [](\A r \in DOMAIN req :
            Amending(r)
            => /\ lock[req[r].name] = r
               /\ engine[req[r].name] = Mutated("token", req[r].snap, req[r].outcome)
               /\ committed[req[r].name] = engine[req[r].name]
               /\ \A r2 \in DOMAIN req :
                    (r2 # r /\ req[r2].name = req[r].name) => req[r2].pc \in {"idle", "wait"})
    /\ [][\A r \in DOMAIN req :
            (Amending(r) /\ lock'[req[r].name] # r) => req'[r].pc = "idle"]_vars

\* C20 witness: a code exchange has minted its token and is at its amendment
\* while another request for the same issuer waits for the lock.
C20_Witness ==
    \E r1 \in DOMAIN req, r2 \in DOMAIN req :
        /\ Amending(r1) /\ req[r1].outcome = "granted"
        /\ req[r2].pc = "wait" /\ req[r2].name = req[r1].name

====
